---- MODULE Spec2Model ----
(***************************************************************************)
(* Model of the WattSwap smart-meter simulator: Simulator (simulator.py)    *)
(* driven by simulation_loop and the request handlers of main.py.           *)
(*                                                                          *)
(* Units.  The code computes in floats; the model computes in fixed point:  *)
(*   power            watts (W)            1.5 kW      = 1500               *)
(*   energy           watt-seconds (Ws)    1 kWh       = 3600000            *)
(*   knob values      thousandths          reserve 10% = 10000              *)
(*   simulated time   whole seconds since midnight of the start day         *)
(* so that  kW * dt / 3600  (kWh) is  W * dt  (Ws), exactly.  Divisions     *)
(* that do not come out even are rounded down (Quot), where the code rounds *)
(* to the nearest float.                                                    *)
(***************************************************************************)
EXTENDS Integers, Sequences, FiniteSets, TLC

(***************************************************************************)
(* Program constants (class Simulator, simulator.py:16-32)                  *)
(***************************************************************************)
PV_CAPACITY_KW == 4000
BATTERY_CAPACITY_KWH == 36000000
BATTERY_SOC_START_PCT == 60
\* EFFICIENCY_ROUNDTRIP = 0.92 = 23/25
EFFICIENCY_ROUNDTRIP_NUM == 23
EFFICIENCY_ROUNDTRIP_DEN == 25
P_MAX_CHARGE == 3000
P_MAX_DISCHARGE == 3000
\* INVERTER_EFFICIENCY = 0.96 = 24/25
INVERTER_EFFICIENCY_NUM == 24
INVERTER_EFFICIENCY_DEN == 25
BASE_LOAD_KW == 1500
TIME_ACCELERATION == 1000
SUNRISE_SECONDS == 900
SUNSET_SECONDS == 900
MAX_IRRADIANCE == 1000
STC_IRRADIANCE == 1000
BATTERY_TEMP_C == 25
\* grid_available_capacity, the literal 5.0 of tick
GRID_CAPACITY_KW == 5000
\* the EV charger's draw, the literal 3.0 of tick
EV_FAST_KW == 3000
\* the top of random.uniform(0.5, 2.0), the load spike
SPIKE_MAX_KW == 2000
\* tick's default dt, the only one simulation_loop uses
DT == 1
\* deque(maxlen=3600)
TIMESERIES_MAXLEN == 3600
\* the initial reserve knob, 10.0 percent
RESERVE_START_PCT == 10000
\* seconds in an hour and in a day, thousandths in a unit, percent
HOUR == 3600
DAY == 86400
MILLI == 1000
PERCENT == 100
SUNRISE_HOUR == 6
SUNSET_HOUR == 18
\* pv_temp_derate: 1.0 and 0.00005 per degree, in units of 1/100000
DERATE_ONE == 100000
DERATE_PER_C == 5
DERATE_REF_C == 25
\* delta_export * 0.45 and delta_export * 0.08, in hundredths
CO2_FACTOR == 45
TOKEN_RATE == 8

(***************************************************************************)
(* Bounds of the model                                                      *)
(***************************************************************************)
MaxTicks == 2
MaxOrders == 2
MaxSwitches == 2
MaxMarketSwitches == 1

\* floor division, the model's rounding of a float quotient
Quot(a, b) == a \div b

Min(a, b) == IF a <= b THEN a ELSE b
Max(a, b) == IF a >= b THEN a ELSE b
Abs(a) == IF a >= 0 THEN a ELSE -a

VARIABLES
    current_time,        \* simulated clock, seconds
    soc_kwh, pv_power_kw, load_kw, battery_power_kw,
    grid_import_kw, grid_export_kw,
    energy_imported, energy_exported, pv_energy,
    unserved_load_kw, co2_savings, token_earnings,
    daytime, sun_cloud_factor, grid_connected, market_enabled,
    battery_reserve_pct, manual_load_delta_kw, ev_plugged, ev_mode,
    fault_inject, time_acceleration,
    orders,              \* the order dicts ever created, by the number in order_id
    active_orders,       \* the list active_orders, as the numbers of its dicts
    order_counter,
    timeseries, latest_snapshot,
    events,
    loop,                \* the simulation_loop task: "running" or "dead"
    sleep_ms,            \* the interval of the sleep the task is in, milliseconds
    ret,                 \* the response to the latest request
    cancelled,           \* the orders CancelOrder has removed
    nticks, nswitches    \* how many ticks and accepted switch changes so far

physical == <<current_time, soc_kwh, pv_power_kw, load_kw, battery_power_kw,
              grid_import_kw, grid_export_kw, unserved_load_kw>>
counters == <<energy_imported, energy_exported, pv_energy, co2_savings, token_earnings>>
knobs == <<daytime, sun_cloud_factor, grid_connected, market_enabled,
           battery_reserve_pct, manual_load_delta_kw, ev_plugged, ev_mode,
           fault_inject, time_acceleration>>
book == <<orders, active_orders, order_counter>>
history == <<timeseries, latest_snapshot, events>>
driver == <<loop, sleep_ms, nticks>>
vars == <<physical, counters, knobs, book, history, driver, ret, cancelled, nswitches>>

(***************************************************************************)
(* Environmental model                                                      *)
(***************************************************************************)
\* mutant: the curve returned whatever the daytime switch says
daylight_curve_unswitched(t) ==
    LET sec == t % DAY
    IN  IF SUNRISE_HOUR * HOUR <= sec /\ sec < SUNSET_HOUR * HOUR THEN MILLI ELSE 0

\* Simulator.daylight_curve: the irradiance factor at time t, in thousandths
daylight_curve(t) ==
    LET sec == t % DAY
        rise == SUNRISE_HOUR * HOUR
        set == SUNSET_HOUR * HOUR
        factor ==
            IF rise <= sec /\ sec < rise + SUNRISE_SECONDS
            THEN Quot((sec - rise) * MILLI, SUNRISE_SECONDS)
            ELSE IF rise + SUNRISE_SECONDS <= sec /\ sec < set - SUNSET_SECONDS
            THEN MILLI
            ELSE IF set - SUNSET_SECONDS <= sec /\ sec < set
            THEN Quot((set - sec) * MILLI, SUNSET_SECONDS)
            ELSE 0
    IN  IF daytime THEN factor ELSE 0

\* Simulator.pv_temp_derate, in units of 1/100000
pv_temp_derate(temp_c) == DERATE_ONE - DERATE_PER_C * (temp_c - DERATE_REF_C)

\* pv_irradiance of tick and get_snapshot, W/m2
PvIrradiance(t) ==
    Quot(MAX_IRRADIANCE * daylight_curve(t) * sun_cloud_factor, MILLI * MILLI)

\* pv_power_kw of tick at time t
PvPower(t) ==
    Max(0, Quot(Quot(Quot(PV_CAPACITY_KW * PvIrradiance(t), STC_IRRADIANCE)
                         * pv_temp_derate(BATTERY_TEMP_C), DERATE_ONE)
                    * INVERTER_EFFICIENCY_NUM, INVERTER_EFFICIENCY_DEN))

\* load_kw of tick; spike is the random spike drawn (0 when none is)
LoadPower(spike) ==
    BASE_LOAD_KW + manual_load_delta_kw + spike
        + (IF ev_plugged /\ ev_mode = "fast" THEN EV_FAST_KW ELSE 0)

(***************************************************************************)
(* Order book, read side                                                    *)
(***************************************************************************)
\* the dict of the order numbered id
Dict(id) == orders[id + 1]

\* the numbers of the orders ever submitted
Submitted == 0 .. (order_counter - 1)

Remaining(o) == o.quantity_kwh - o.filled_kwh

\* mutant: demand taken from the orders of either side
DemandingAnySide(id) == Remaining(Dict(id)) > 0

\* the sell orders tick asks a rate of
Demanding(id) == Dict(id).side = "sell" /\ Remaining(Dict(id)) > 0

\* p_trade of one order
PTrade(o) == Min(P_MAX_DISCHARGE, Quot(Remaining(o), o.duration_sec))

RECURSIVE SumTrade(_)
SumTrade(ids) ==
    IF ids = <<>> THEN 0
    ELSE (IF Demanding(Head(ids)) THEN PTrade(Dict(Head(ids))) ELSE 0)
            + SumTrade(Tail(ids))

\* trade_sell_kw of tick
TradeSellKw == SumTrade(active_orders)

\* the division of p_trade raises ZeroDivisionError
TradeRaises ==
    \E i \in DOMAIN active_orders :
        Demanding(active_orders[i]) /\ Dict(active_orders[i]).duration_sec = 0

(***************************************************************************)
(* Battery scheduling                                                       *)
(***************************************************************************)
\* BATTERY_CAPACITY_KWH * battery_reserve_pct / 100
ReserveKwh(reserve_pct) == Quot(BATTERY_CAPACITY_KWH, PERCENT * MILLI) * reserve_pct

AvailableCharge(soc, dt) ==
    Min(P_MAX_CHARGE,
        Quot((BATTERY_CAPACITY_KWH - soc) * EFFICIENCY_ROUNDTRIP_DEN,
             dt * EFFICIENCY_ROUNDTRIP_NUM))

\* mutant: the discharge headroom taken without regard to the reserve
AvailableDischargeUnreserved(soc, reserve_pct, dt) == P_MAX_DISCHARGE

AvailableDischarge(soc, reserve_pct, dt) ==
    Min(P_MAX_DISCHARGE,
        Quot((soc - ReserveKwh(reserve_pct)) * EFFICIENCY_ROUNDTRIP_NUM,
             dt * EFFICIENCY_ROUNDTRIP_DEN))

\* battery_power_kw after the load / surplus branch, before trade demand
LoadDispatch(pv, load, avail_c, avail_d) ==
    LET load_deficit == load - pv
        excess_pv == Max(0, pv - load)
    IN  IF load_deficit > 0
        THEN Min(load_deficit, avail_d)
        ELSE -Min(excess_pv, avail_c)

\* additional_discharge of tick
AdditionalDischarge(trade_sell_kw, avail_d, bp) ==
    IF trade_sell_kw > 0 THEN Min(trade_sell_kw, avail_d - Abs(bp)) ELSE 0

\* battery_power_kw of tick, discharge positive
BatteryPower(pv, load, soc, reserve_pct, trade_sell_kw, dt) ==
    LET avail_c == AvailableCharge(soc, dt)
        avail_d == AvailableDischarge(soc, reserve_pct, dt)
        bp == LoadDispatch(pv, load, avail_c, avail_d)
    IN  bp + AdditionalDischarge(trade_sell_kw, avail_d, bp)

\* soc_change of tick
SocChange(bp, dt) ==
    IF bp > 0
    THEN Quot(-bp * dt * EFFICIENCY_ROUNDTRIP_DEN, EFFICIENCY_ROUNDTRIP_NUM)
    ELSE Quot(-bp * dt * EFFICIENCY_ROUNDTRIP_NUM, EFFICIENCY_ROUNDTRIP_DEN)

\* mutant: the update without the clamp of line 168
SocAfterUnclamped(soc, bp, dt) == soc + SocChange(bp, dt)

\* soc_kwh after tick's update and clamp
SocAfter(soc, bp, dt) == Max(0, Min(BATTERY_CAPACITY_KWH, soc + SocChange(bp, dt)))

(***************************************************************************)
(* Grid                                                                     *)
(***************************************************************************)
NetPower(pv, bp, load) == pv + bp - load

GridExport(net) == IF net > 0 THEN Min(net, GRID_CAPACITY_KW) ELSE 0

\* mutant: the import taken whether or not the grid is connected
GridImportAlways(net) == IF net > 0 THEN 0 ELSE Min(-net, GRID_CAPACITY_KW)

GridImport(net) ==
    IF net > 0 THEN 0
    ELSE IF grid_connected THEN Min(-net, GRID_CAPACITY_KW) ELSE 0

UnservedLoad(net) ==
    IF net <= 0 /\ ~grid_connected /\ -net > GRID_CAPACITY_KW
    THEN -net - GRID_CAPACITY_KW
    ELSE unserved_load_kw

(***************************************************************************)
(* Order book, tick's update (simulator.py:190-198)                         *)
(***************************************************************************)
\* mutant: the fill without the test battery_power_kw > 0
FilledThisTickSigned(bp, dt) == bp * dt

\* mutant: the fill with the sign of the test turned, crediting charge
FilledThisTickCharging(bp, dt) == IF bp < 0 THEN -bp * dt ELSE 0

\* filled_this_tick
FilledThisTick(bp, dt) == IF bp > 0 THEN bp * dt ELSE 0

\* the order's fill reaches its quantity in this tick
Completes(id, fill) ==
    Dict(id).side = "sell" /\ Dict(id).filled_kwh + fill >= Dict(id).quantity_kwh

InActive(id) == \E i \in DOMAIN active_orders : active_orders[i] = id

\* the order dicts after the loop over active_orders[:]
OrdersAfterTick(fill) ==
    [k \in DOMAIN orders |->
        IF InActive(k - 1) /\ orders[k].side = "sell"
        THEN [orders[k] EXCEPT
                !.filled_kwh = @ + fill,
                !.status = IF Completes(k - 1, fill) THEN "executed" ELSE @]
        ELSE orders[k]]

\* mutant: the loop without active_orders.remove(order)
ActiveAfterTickKept(fill) == active_orders

\* active_orders after the loop has removed the completed orders
ActiveAfterTick(fill) == SelectSeq(active_orders, LAMBDA id : ~Completes(id, fill))

\* mutant: the loop without events.append
ExecutedEventsNone(ids, fill, t) == <<>>

\* the events the loop appends, in the order of active_orders
RECURSIVE ExecutedEvents(_, _, _)
ExecutedEvents(ids, fill, t) ==
    IF ids = <<>> THEN <<>>
    ELSE (IF Completes(Head(ids), fill)
          THEN <<[type |-> "order_executed", order_id |-> Head(ids), timestamp |-> t]>>
          ELSE <<>>)
         \o ExecutedEvents(Tail(ids), fill, t)

(***************************************************************************)
(* Snapshots and the history store                                          *)
(***************************************************************************)
\* Simulator.get_snapshot, without the measurement noise
Snapshot(t, soc, pv, bp, load, imported, exported, pending) ==
    [timestamp |-> t, soc_kwh |-> soc, pv_power_kw |-> pv, battery_power_kw |-> bp,
     load_power_kw |-> load, net_power_kw |-> pv + bp - load,
     energy_imported_kwh |-> imported, energy_exported_kwh |-> exported,
     pending_orders |-> pending]

\* deque.append with maxlen
RingAppend(q, x) ==
    IF Len(q) >= TIMESERIES_MAXLEN THEN Tail(q) \o <<x>> ELSE q \o <<x>>

\* fault_inject.get('sigma_pct', 0.01) is a number the noise can be drawn with
SigmaIsNumber(fi) == fi \in {"{}", "{\"sigma_pct\": 0.05}"}

(***************************************************************************)
(* The inputs the model draws                                               *)
(***************************************************************************)
\* the time of day at construction: two seconds before the sunrise ramp ends, so
\* that the first ticks cross from the ramp to the plateau of the curve
StartTimes == {SUNRISE_HOUR * HOUR + SUNRISE_SECONDS - 2}

\* the load spike of a tick: none, or the top of its range
Spikes == {0, SPIKE_MAX_KW}

\* the order requests drawn; 1800 Ws is 0.0005 kWh and 5400 Ws is 0.0015 kWh
\* (ttl_sec is 600, the default, but for the buy order, whose second runs out)
OrderInputs ==
    { [side |-> "sell", quantity_kwh |-> 1800, duration_sec |-> 1, ttl_sec |-> 600],
      [side |-> "sell", quantity_kwh |-> 5400, duration_sec |-> 900, ttl_sec |-> 600],
      [side |-> "sell", quantity_kwh |-> 5400, duration_sec |-> 0, ttl_sec |-> 600],
      [side |-> "buy", quantity_kwh |-> 1800, duration_sec |-> 900, ttl_sec |-> 1] }

(***************************************************************************)
(* Init: the state Simulator.__init__ leaves                                *)
(***************************************************************************)
InitAt(times) ==
    /\ current_time \in times
    /\ soc_kwh = Quot(BATTERY_CAPACITY_KWH, PERCENT) * BATTERY_SOC_START_PCT
    /\ pv_power_kw = 0
    /\ load_kw = BASE_LOAD_KW
    /\ battery_power_kw = 0
    /\ grid_import_kw = 0
    /\ grid_export_kw = 0
    /\ energy_imported = 0
    /\ energy_exported = 0
    /\ pv_energy = 0
    /\ unserved_load_kw = 0
    /\ co2_savings = 0
    /\ token_earnings = 0
    /\ daytime = FALSE
    /\ sun_cloud_factor = MILLI
    /\ grid_connected = TRUE
    /\ market_enabled = TRUE
    /\ battery_reserve_pct = RESERVE_START_PCT
    /\ manual_load_delta_kw = 0
    /\ ev_plugged = FALSE
    /\ ev_mode = "off"
    /\ fault_inject = "{}"
    /\ time_acceleration = TIME_ACCELERATION
    /\ orders = <<>>
    /\ active_orders = <<>>
    /\ order_counter = 0
    /\ timeseries = <<>>
    /\ latest_snapshot = Snapshot(current_time, soc_kwh, 0, 0, BASE_LOAD_KW, 0, 0, 0)
    /\ events = <<>>
    /\ loop = "running"
    /\ sleep_ms = 0
    /\ ret = [op |-> "none"]
    /\ cancelled = {}
    /\ nticks = 0
    /\ nswitches = 0

\* the simulator constructed at the time of day the model starts from
Init == InitAt(StartTimes)

(***************************************************************************)
(* Simulator.tick, as simulation_loop runs it: tick(), then the sleep       *)
(***************************************************************************)
TickTime == current_time + DT
TickPv == PvPower(TickTime)
TickBp(spike) ==
    BatteryPower(TickPv, LoadPower(spike), soc_kwh, battery_reserve_pct, TradeSellKw, DT)
TickNet(spike) == NetPower(TickPv, TickBp(spike), LoadPower(spike))
TickFill(spike) == FilledThisTick(TickBp(spike), DT)

\* mutant: a sleep of one second whatever the acceleration
SleepIntervalFixed(accel) == MILLI

\* 1 / simulator.time_acceleration, in milliseconds
SleepInterval(accel) ==
    IF accel > 0 THEN Quot(MILLI * MILLI, accel) ELSE -Quot(MILLI * MILLI, -accel)

\* the task is alive; a response being returned leaves before the task runs again
CanTick == loop = "running" /\ ret.op = "none"

\* lines 107-198 of tick: everything up to the measurement noise
TickCompute(spike) ==
    /\ current_time' = TickTime
    /\ pv_power_kw' = TickPv
    /\ load_kw' = LoadPower(spike)
    /\ battery_power_kw' = TickBp(spike)
    /\ soc_kwh' = SocAfter(soc_kwh, TickBp(spike), DT)
    /\ grid_export_kw' = GridExport(TickNet(spike))
    /\ grid_import_kw' = GridImport(TickNet(spike))
    /\ unserved_load_kw' = UnservedLoad(TickNet(spike))
    /\ energy_imported' = energy_imported + GridImport(TickNet(spike)) * DT
    /\ energy_exported' = energy_exported + GridExport(TickNet(spike)) * DT
    /\ pv_energy' = pv_energy + TickPv * DT
    /\ co2_savings' = co2_savings + GridExport(TickNet(spike)) * DT * CO2_FACTOR
    /\ token_earnings' = token_earnings + GridExport(TickNet(spike)) * DT * TOKEN_RATE
    /\ orders' = OrdersAfterTick(TickFill(spike))
    /\ active_orders' = ActiveAfterTick(TickFill(spike))
    /\ events' = events \o ExecutedEvents(active_orders, TickFill(spike), TickTime)
    /\ UNCHANGED <<knobs, order_counter, ret, cancelled, nswitches>>

\* a tick that runs through: the snapshot is stored and the task goes to sleep,
\* unless computing the interval divides by zero
Tick(spike) ==
    /\ CanTick
    /\ ~TradeRaises
    /\ SigmaIsNumber(fault_inject)
    /\ TickCompute(spike)
    /\ latest_snapshot' = Snapshot(current_time', soc_kwh', pv_power_kw',
                                   battery_power_kw', load_kw', energy_imported',
                                   energy_exported', Len(active_orders'))
    /\ timeseries' = RingAppend(timeseries, latest_snapshot')
    /\ nticks' = nticks + 1
    /\ IF time_acceleration = 0
       THEN loop' = "dead" /\ UNCHANGED sleep_ms
       ELSE loop' = "running" /\ sleep_ms' = SleepInterval(time_acceleration)

\* a tick that raises ZeroDivisionError at p_trade (line 132): the clock, the PV
\* power and the load are written, nothing else; the task ends
TickTradeRaises(spike) ==
    /\ CanTick
    /\ TradeRaises
    /\ current_time' = TickTime
    /\ pv_power_kw' = TickPv
    /\ load_kw' = LoadPower(spike)
    /\ loop' = "dead"
    /\ nticks' = nticks + 1
    /\ UNCHANGED <<soc_kwh, battery_power_kw, grid_import_kw, grid_export_kw,
                   unserved_load_kw, counters, knobs, book, history, sleep_ms,
                   ret, cancelled, nswitches>>

\* a tick that raises TypeError at the noise (line 202): the state is updated, no
\* snapshot is built; the task ends
TickNoiseRaises(spike) ==
    /\ CanTick
    /\ ~TradeRaises
    /\ ~SigmaIsNumber(fault_inject)
    /\ TickCompute(spike)
    /\ loop' = "dead"
    /\ nticks' = nticks + 1
    /\ UNCHANGED <<timeseries, latest_snapshot, sleep_ms>>

(***************************************************************************)
(* control_switch (main.py:124-206)                                         *)
(***************************************************************************)
BoolSwitches == {"daytime", "grid_connected", "market_enabled", "ev_plug"}
FloatSwitches == {"battery_reserve_pct", "manual_load_delta_kw", "sun_cloud_factor",
                  "time_acceleration"}
EvModes == {"off", "fast", "scheduled"}

\* the strings float() parses, with their values in thousandths; float() raises
\* ValueError on any other string the model draws
FloatStrings == {"0", "0.5", "1.5", "4", "10", "59.995", "60", "100", "101", "-1",
                 "-1.5"}
ParseFloat(value) ==
    CASE value = "0" -> 0
      [] value = "0.5" -> 500
      [] value = "1.5" -> 1500
      [] value = "4" -> 4000
      [] value = "10" -> 10000
      [] value = "59.995" -> 59995
      [] value = "60" -> 60000
      [] value = "100" -> 100000
      [] value = "101" -> 101000
      [] value = "-1" -> -1000
      [] value = "-1.5" -> -1500

\* the strings json.loads parses, and those of them that are JSON objects
JsonStrings == {"{}", "{\"sigma_pct\": 0.05}", "{\"sigma_pct\": \"high\"}", "[1]", "10"}
JsonObjects == {"{}", "{\"sigma_pct\": 0.05}", "{\"sigma_pct\": \"high\"}"}

\* control_switch raises HTTPException(400) while parsing the value (lines 155-181)
SwitchRejected(switch, value) ==
    IF switch \in BoolSwitches THEN value \notin {"true", "false"}
    ELSE IF switch \in FloatSwitches
    THEN \/ value \notin FloatStrings
         \/ /\ switch = "battery_reserve_pct"
            /\ ~(0 <= ParseFloat(value) /\ ParseFloat(value) <= PERCENT * MILLI)
         \/ /\ switch = "sun_cloud_factor"
            /\ ~(0 <= ParseFloat(value) /\ ParseFloat(value) <= MILLI)
    ELSE IF switch = "ev_mode" THEN value \notin EvModes
    ELSE IF switch = "fault_inject" THEN value \notin JsonObjects
    ELSE TRUE

\* the requests the model draws: for each switch, values of every kind the parsing
\* tells apart
SwitchInputs ==
    ({"daytime"} \X {"true", "yes"})
    \cup ({"grid_connected"} \X {"false", "0"})
    \cup ({"market_enabled", "ev_plug"} \X {"true", "false"})
    \cup ({"battery_reserve_pct"} \X {"60", "100", "101", "-1", "high"})
    \cup ({"manual_load_delta_kw"} \X {"4", "-1.5", "high"})
    \cup ({"sun_cloud_factor"} \X {"0", "1.5", "high"})
    \cup ({"time_acceleration"} \X {"10", "0", "-1", "high"})
    \cup ({"ev_mode"} \X {"fast", "slow"})
    \cup ({"fault_inject"} \X {"{\"sigma_pct\": \"high\"}", "[1]", "high"})
    \cup ({"bogus"} \X {"true"})

\* SetSwitch(switch, value)
SetSwitch(switch, value) ==
    /\ ret.op = "none"
    /\ IF SwitchRejected(switch, value)
       THEN /\ ret' = [op |-> "switch", status |-> 400]
            /\ UNCHANGED <<physical, counters, knobs, book, history, driver, cancelled,
                           nswitches>>
       ELSE /\ nswitches < MaxSwitches
            /\ nswitches' = nswitches + 1
            /\ daytime' = IF switch = "daytime" THEN value = "true" ELSE daytime
            /\ grid_connected' =
                   IF switch = "grid_connected" THEN value = "true" ELSE grid_connected
            /\ market_enabled' =
                   IF switch = "market_enabled" THEN value = "true" ELSE market_enabled
            /\ ev_plugged' = IF switch = "ev_plug" THEN value = "true" ELSE ev_plugged
            /\ battery_reserve_pct' =
                   IF switch = "battery_reserve_pct" THEN ParseFloat(value)
                   ELSE battery_reserve_pct
            /\ manual_load_delta_kw' =
                   IF switch = "manual_load_delta_kw" THEN ParseFloat(value)
                   ELSE manual_load_delta_kw
            /\ sun_cloud_factor' =
                   IF switch = "sun_cloud_factor" THEN ParseFloat(value)
                   ELSE sun_cloud_factor
            /\ time_acceleration' =
                   IF switch = "time_acceleration" THEN ParseFloat(value)
                   ELSE time_acceleration
            /\ ev_mode' = IF switch = "ev_mode" THEN value ELSE ev_mode
            /\ fault_inject' = IF switch = "fault_inject" THEN value ELSE fault_inject
            /\ ret' = [op |-> "switch", status |-> 200]
            /\ UNCHANGED <<physical, counters, book, history, driver, cancelled>>

(***************************************************************************)
(* The market handlers (main.py:266-341, simulator.py:302-331)              *)
(***************************************************************************)
\* mutant: the id taken from the length of the active list
NextOrderIdByLength == Len(active_orders)

\* the number in the order_id add_order assigns, f"order_{self.order_counter}"
NextOrderId == order_counter

\* create_order and Simulator.add_order
SubmitOrder(side, quantity_kwh, duration_sec, ttl_sec) ==
    /\ ret.op = "none"
    /\ order_counter < MaxOrders
    /\ orders' = Append(orders,
            [order_id |-> NextOrderId, side |-> side, quantity_kwh |-> quantity_kwh,
             duration_sec |-> duration_sec, ttl_sec |-> ttl_sec, status |-> "accepted",
             filled_kwh |-> 0, start_time |-> current_time])
    /\ active_orders' = Append(active_orders, NextOrderId)
    /\ order_counter' = order_counter + 1
    /\ ret' = [op |-> "submit", status |-> 200, order_id |-> NextOrderId,
               reserved_kwh |-> quantity_kwh]
    /\ UNCHANGED <<physical, counters, knobs, history, driver, cancelled, nswitches>>

\* list.remove: the list without the first element equal to id
RECURSIVE Remove(_, _)
Remove(ids, id) ==
    IF ids = <<>> THEN <<>>
    ELSE IF Head(ids) = id THEN Tail(ids)
    ELSE <<Head(ids)>> \o Remove(Tail(ids), id)

\* mutant: a cancel that empties the list
CancelledListAll(id) == IF InActive(id) THEN <<>> ELSE active_orders

\* Simulator.cancel_order's list after the call
CancelledList(id) == IF InActive(id) THEN Remove(active_orders, id) ELSE active_orders

\* cancel_order and Simulator.cancel_order
CancelOrder(id) ==
    /\ ret.op = "none"
    /\ active_orders' = CancelledList(id)
    /\ cancelled' = IF InActive(id) THEN cancelled \cup {id} ELSE cancelled
    /\ ret' = [op |-> "cancel", order_id |-> id,
               status |-> IF InActive(id) THEN 200 ELSE 404]
    /\ UNCHANGED <<physical, counters, knobs, orders, order_counter, history, driver,
                   nswitches>>

\* Simulator.get_order_status: the OrderStatus of an order of the active list
OrderStatus(id) ==
    [order_id |-> id, status |-> Dict(id).status,
     reserved_kwh |-> Dict(id).quantity_kwh, filled_kwh |-> Dict(id).filled_kwh,
     remaining_kwh |-> Dict(id).quantity_kwh - Dict(id).filled_kwh]

\* mutant: a status query that looks among all the orders ever submitted
StatusFoundEver(id) == id \in Submitted

\* the order ids a status query finds
StatusFound(id) == InActive(id)

\* get_order_status
GetOrderStatus(id) ==
    /\ ret.op = "none"
    /\ ret' = IF StatusFound(id)
              THEN [op |-> "status", order_id |-> id, status |-> 200,
                    body |-> OrderStatus(id)]
              ELSE [op |-> "status", order_id |-> id, status |-> 404]
    /\ UNCHANGED <<physical, counters, knobs, book, history, driver, cancelled,
                   nswitches>>

\* the response leaves for the client (the return of each handler)
Respond ==
    /\ ret.op # "none"
    /\ ret' = [op |-> "none"]
    /\ UNCHANGED <<physical, counters, knobs, book, history, driver, cancelled,
                   nswitches>>

\* the ids requests name: every id that can be assigned, and one that never is
OrderIds == 0 .. MaxOrders

\* the switch requests drawn beside market traffic
MarketSwitchInputs ==
    { <<"battery_reserve_pct", "100">>, <<"battery_reserve_pct", "101">>,
      <<"market_enabled", "false">>, <<"daytime", "true">>,
      <<"grid_connected", "false">> }

(***************************************************************************)
(* Spec: the tick task under market traffic and a switch change             *)
(***************************************************************************)
\* fault_inject keeps its initial {} here, so the noise layer cannot raise
Next ==
    \/ \E spike \in Spikes : nticks < MaxTicks /\ Tick(spike)
    \/ \E spike \in Spikes : nticks < MaxTicks /\ TickTradeRaises(spike)
    \/ \E sv \in MarketSwitchInputs :
            nswitches < MaxMarketSwitches /\ SetSwitch(sv[1], sv[2])
    \/ \E req \in OrderInputs :
            SubmitOrder(req.side, req.quantity_kwh, req.duration_sec, req.ttl_sec)
    \/ \E id \in OrderIds : CancelOrder(id)
    \/ \E id \in OrderIds : GetOrderStatus(id)
    \/ Respond

Spec == Init /\ [][Next]_vars

(***************************************************************************)
(* SpecControl: the tick task under switch requests of every kind           *)
(***************************************************************************)
NextControl ==
    \/ \E spike \in Spikes : nticks < MaxTicks /\ Tick(spike)
    \/ \E spike \in Spikes : nticks < MaxTicks /\ TickNoiseRaises(spike)
    \/ \E sv \in SwitchInputs : SetSwitch(sv[1], sv[2])
    \/ Respond

SpecControl == Init /\ [][NextControl]_vars

(***************************************************************************)
(* SpecB: scenario B, one sell order of 1 kWh over an hour, then ticks      *)
(***************************************************************************)
MaxRunTicks == 2000
MaxSpikeTicks == 2

\* 1.0 kWh, duration_sec = 3600, the default ttl_sec
ScenarioB == [side |-> "sell", quantity_kwh |-> HOUR * MILLI, duration_sec |-> HOUR,
              ttl_sec |-> 600]

NextB ==
    \/ /\ order_counter = 0
       /\ SubmitOrder(ScenarioB.side, ScenarioB.quantity_kwh, ScenarioB.duration_sec,
                      ScenarioB.ttl_sec)
    \/ Respond
    \/ /\ order_counter = 1
       /\ nticks < MaxRunTicks
       /\ \E spike \in (IF nticks < MaxSpikeTicks THEN Spikes ELSE {0}) : Tick(spike)

\* the event loop runs whatever is ready: the handler, its response, the tick task
SpecB == Init /\ [][NextB]_vars /\ WF_vars(NextB)

(***************************************************************************)
(* Claims                                                                   *)
(***************************************************************************)
\* how many order_executed events the log holds for the order
ExecCount(id) ==
    Cardinality({i \in DOMAIN events :
                    events[i].type = "order_executed" /\ events[i].order_id = id})

\* a step in which a tick ran through to its snapshot
CompletedTick == nticks' = nticks + 1 /\ timeseries' # timeseries

\* C1: after every tick, whatever the knobs and the active orders,
\* 0 <= soc_kwh <= BATTERY_CAPACITY_KWH
C1_SocBounds == 0 <= soc_kwh /\ soc_kwh <= BATTERY_CAPACITY_KWH

\* a tick whose SoC update overshot the capacity and was clamped to it
C1_Witness == nticks > 0 /\ soc_kwh = BATTERY_CAPACITY_KWH

\* what is left of the balance after a tick
Residual == pv_power_kw + battery_power_kw + grid_import_kw - grid_export_kw - load_kw

C3_FillWithinQuantity ==
    \A k \in DOMAIN orders :
        0 <= orders[k].filled_kwh /\ orders[k].filled_kwh <= orders[k].quantity_kwh

\* C4: no order's filled_kwh decreases in any step
C4_FillMonotone ==
    [][\A k \in DOMAIN orders : orders'[k].filled_kwh >= orders[k].filled_kwh]_vars

\* a partly filled sell order still active after a tick in which the battery charged
C4_Witness ==
    /\ battery_power_kw < 0
    /\ \E k \in DOMAIN orders : InActive(k - 1) /\ orders[k].filled_kwh > 0

\* the order was submitted and is no longer in the active set
Left(id) == id \in Submitted /\ ~InActive(id)

\* C5: an order that has left the active set has exactly one outcome, executed or
\* cancelled, and an active one has none; once it has left it never reappears, a
\* CancelOrder on it answers not-found, and it is not executed again
C5_TerminalExclusive ==
    /\ [](\A id \in Submitted :
            /\ ExecCount(id) + (IF id \in cancelled THEN 1 ELSE 0)
                    = (IF InActive(id) THEN 0 ELSE 1)
            /\ (Dict(id).status = "executed") = (ExecCount(id) = 1))
    /\ [][\A id \in Submitted :
            Left(id) =>
                /\ ~InActive(id)'
                /\ ExecCount(id)' = ExecCount(id)
                /\ (ret.op = "none" /\ ret'.op = "cancel" /\ ret'.order_id = id)
                        => ret'.status = 404]_vars

\* CancelOrder on an executed order answered not-found
C5_Witness ==
    /\ ret.op = "cancel" /\ ret.status = 404
    /\ ret.order_id \in Submitted
    /\ Dict(ret.order_id).status = "executed"

\* C6: in the step where a sell order's fill first reaches its quantity the order
\* becomes executed, leaves the active set and gets one order_executed event; the log
\* never holds two such events for an order, and none for a cancelled order
C6_Completion ==
    /\ [](\A id \in Submitted :
            ExecCount(id) <= 1 /\ (id \in cancelled => ExecCount(id) = 0))
    /\ [][\A id \in Submitted :
            (/\ InActive(id)
             /\ Dict(id).side = "sell"
             /\ Dict(id).filled_kwh < Dict(id).quantity_kwh
             /\ orders'[id + 1].filled_kwh >= orders'[id + 1].quantity_kwh)
            => /\ orders'[id + 1].status = "executed"
               /\ ~InActive(id)'
               /\ ExecCount(id)' = ExecCount(id) + 1
               /\ events'[Len(events')].type = "order_executed"]_vars

\* an order completed by the second tick it was active in, with its one event
C6_Witness ==
    \E id \in Submitted :
        /\ Dict(id).status = "executed"
        /\ Dict(id).quantity_kwh = 5400
        /\ ExecCount(id) = 1

\* the scenario's order has completed: filled, executed, out of the active set, one event
ScenarioBDone ==
    /\ order_counter = 1
    /\ Dict(0).filled_kwh >= ScenarioB.quantity_kwh
    /\ Dict(0).status = "executed"
    /\ ~InActive(0)
    /\ ExecCount(0) = 1

\* C7: from the initial state, the 1 kWh sell order over 3600 s, never cancelled,
\* is eventually executed under ticks of dt = 1, with exactly one event, for good
C7_ScenarioB == <>[]ScenarioBDone

\* the order completed, and only after more than a thousand ticks
C7_Witness == ScenarioBDone /\ nticks > 1000

\* C8: CancelOrder answers success exactly when the id is in the active set; then it
\* removes that order and no other, otherwise it changes nothing; SoC, the counters,
\* the event log and every order's filled_kwh stay as they were
C8_CancelFrame ==
    [][\A id \in OrderIds :
        (ret.op = "none" /\ ret'.op = "cancel" /\ ret'.order_id = id) =>
            /\ (ret'.status = 200) = InActive(id)
            /\ ret'.status \in {200, 404}
            /\ InActive(id) => active_orders' = SelectSeq(active_orders, LAMBDA j : j # id)
            /\ ~InActive(id) => active_orders' = active_orders
            /\ UNCHANGED <<soc_kwh, counters, events, orders>>]_vars

\* a cancel that removed a partly filled order and left another one active
C8_Witness ==
    /\ ret.op = "cancel" /\ ret.status = 200
    /\ Dict(ret.order_id).filled_kwh > 0
    /\ Len(active_orders) = 1

C10_KnobsInRange ==
    /\ 0 <= battery_reserve_pct /\ battery_reserve_pct <= PERCENT * MILLI
    /\ 0 <= sun_cloud_factor /\ sun_cloud_factor <= MILLI
    /\ time_acceleration > 0
    /\ ev_mode \in EvModes
    /\ fault_inject \in JsonObjects

\* a step in which tick was called, whether or not it ran through
TickCalled == nticks' = nticks + 1

\* C11, as claimed: the store never holds more than TIMESERIES_MAXLEN snapshots, and
\* each tick appends exactly one snapshot at the tail, evicting the oldest one when
\* the store is full
C11_RingBuffer ==
    /\ [](Len(timeseries) <= TIMESERIES_MAXLEN)
    /\ [][TickCalled =>
            timeseries' =
                (IF Len(timeseries) >= TIMESERIES_MAXLEN
                 THEN Tail(timeseries) ELSE timeseries) \o <<latest_snapshot'>>]_vars

(***************************************************************************)
(* SpecPv: the PV model over the day, under the daytime and cloud switches  *)
(***************************************************************************)
\* the times of day the simulator is constructed at: midnight, the second before
\* sunrise, the middle and the end of the sunrise ramp, noon, the middle of the sunset
\* ramp, the second before sunset, the second before midnight
TimesOfDay ==
    { 0,
      SUNRISE_HOUR * HOUR - 1,
      SUNRISE_HOUR * HOUR + Quot(SUNRISE_SECONDS, 2),
      SUNRISE_HOUR * HOUR + SUNRISE_SECONDS - 2,
      Quot(SUNRISE_HOUR + SUNSET_HOUR, 2) * HOUR,
      SUNSET_HOUR * HOUR - Quot(SUNSET_SECONDS, 2),
      SUNSET_HOUR * HOUR - 1,
      DAY - 1 }

InitPv == InitAt(TimesOfDay)

\* the switch requests that bear on the PV power
PvSwitchInputs ==
    { <<"daytime", "true">>, <<"daytime", "false">>,
      <<"sun_cloud_factor", "0">>, <<"sun_cloud_factor", "0.5">> }

NextPv ==
    \/ nticks < MaxTicks /\ Tick(0)
    \/ \E sv \in PvSwitchInputs : SetSwitch(sv[1], sv[2])
    \/ Respond

SpecPv == InitPv /\ [][NextPv]_vars

\* C12: a tick taken with daytime = false, or with daytime = true and
\* sun_cloud_factor = 0, leaves pv_power_kw exactly 0, at every time of day
C12_NoPvWithoutSun ==
    [][(TickCalled /\ (~daytime \/ sun_cloud_factor = 0)) => pv_power_kw' = 0]_vars

\* a tick at noon with daytime = true and sun_cloud_factor = 0 left no PV power
C12_Witness ==
    /\ nticks > 0
    /\ daytime /\ sun_cloud_factor = 0
    /\ daylight_curve(current_time) = MILLI
    /\ pv_power_kw = 0

\* the latest tick has written state without appending its snapshot
TickOpen == latest_snapshot.timestamp # current_time

\* a step in which a request handler ran
HandlerRan == ret.op = "none" /\ ret'.op # "none"

\* C13, as claimed: every handler runs wholly before a tick starts or wholly after the
\* tick has appended its snapshot, so never on the state a tick left part-way, a
\* tick that fails included
C13_NoPartialTick == [][HandlerRan => ~TickOpen]_vars

(***************************************************************************)
(* SpecRead: the event log under orders, ticks and GetEvents (main.py:372)  *)
(***************************************************************************)
\* the Python slice seq[i:]
SliceFrom(seq, i) ==
    LET n == Len(seq)
        start == IF i < 0 THEN Max(0, n + i) ELSE Min(n, i)
    IN  SubSeq(seq, start + 1, n)

\* get_events: simulator.events[-limit:]
GetEvents(limit) ==
    /\ ret.op = "none"
    /\ ret' = [op |-> "events", status |-> 200, limit |-> limit,
               body |-> SliceFrom(events, -limit)]
    /\ UNCHANGED <<physical, counters, knobs, book, history, driver, cancelled,
                   nswitches>>

\* the limits drawn: none, fewer than the log can hold, as many, and the default
EventLimits == {0, 1, MaxOrders, 50}

NextRead ==
    \/ \E spike \in Spikes : nticks < MaxTicks /\ Tick(spike)
    \/ \E spike \in Spikes : nticks < MaxTicks /\ TickTradeRaises(spike)
    \/ \E req \in OrderInputs :
            SubmitOrder(req.side, req.quantity_kwh, req.duration_sec, req.ttl_sec)
    \/ \E limit \in EventLimits : GetEvents(limit)
    \/ Respond

SpecRead == Init /\ [][NextRead]_vars

\* s is a suffix of t
IsSuffix(s, t) ==
    Len(s) <= Len(t) /\ s = SubSeq(t, Len(t) - Len(s) + 1, Len(t))

\* C14, as claimed: GetEvents(limit) answers with at most limit events, a suffix of
\* the log (none for limit = 0), and the log only grows at its tail
C14_EventsSuffix ==
    /\ [](ret.op = "events" =>
            Len(ret.body) <= ret.limit /\ IsSuffix(ret.body, events))
    /\ [][Len(events') >= Len(events)
            /\ SubSeq(events', 1, Len(events)) = events]_vars

\* the reserve level is at or above the state of charge
ReserveAboveSoc == ReserveKwh(battery_reserve_pct) >= soc_kwh

\* C15, as claimed: in a tick with the reserve at or above the SoC and a load deficit,
\* the battery neither discharges nor charges, SoC stays, and the whole deficit is
\* imported when the grid is connected, recorded as unserved load when it is not
C15_ReserveHolds ==
    [][(CompletedTick /\ ReserveAboveSoc /\ load_kw' > pv_power_kw') =>
        /\ battery_power_kw' = 0
        /\ soc_kwh' = soc_kwh
        /\ grid_connected => grid_import_kw' = load_kw' - pv_power_kw'
        /\ ~grid_connected => unserved_load_kw' = load_kw' - pv_power_kw']_vars

\* C16: a SetSwitch call leaves the timeseries, the event log, the orders, SoC and
\* the counters as they were and does not touch the loop; the sleep interval the
\* driver computes after a tick is 1 / time_acceleration for the acceleration a in
\* force (a # 0, where 1/a exists), so 100 ms for a = 10
C16_TimeAcceleration ==
    [][ /\ (ret.op = "none" /\ ret'.op = "switch") =>
              UNCHANGED <<timeseries, latest_snapshot, events, book, soc_kwh, counters,
                          driver>>
        /\ (CompletedTick /\ time_acceleration # 0) =>
              /\ loop' = "running"
              /\ sleep_ms' * time_acceleration = MILLI * MILLI ]_vars

\* after SetSwitch("time_acceleration", "10") the driver sleeps a tenth of a second,
\* with the snapshots of the ticks so far still stored
C16_Witness ==
    /\ loop = "running"
    /\ time_acceleration = 10 * MILLI
    /\ sleep_ms * 10 = MILLI
    /\ Len(timeseries) = nticks /\ nticks > 0

\* C17, as claimed: a tick taken while market_enabled = false changes no order's
\* filled_kwh, executes no order, and discharges the battery no further than the
\* load alone asks
C17_MarketDisabled ==
    [][(CompletedTick /\ ~market_enabled) =>
        /\ orders' = orders
        /\ active_orders' = active_orders
        /\ battery_power_kw' =
                BatteryPower(pv_power_kw', load_kw', soc_kwh, battery_reserve_pct, 0, DT)
      ]_vars

\* the simulated time since the order's start timestamp
Age(id) == current_time - Dict(id).start_time

\* C18, as claimed: an order not fully executed (and not cancelled) once more than
\* ttl_sec of simulated time has passed since its start has status expired and is out
\* of the active set
C18_Expiry ==
    \A id \in Submitted :
        (/\ Dict(id).status # "executed"
         /\ id \notin cancelled
         /\ Age(id) > Dict(id).ttl_sec)
        => (Dict(id).status = "expired" /\ ~InActive(id))

\* C19, as claimed: every call of tick runs through to appending its snapshot,
\* whatever orders have been admitted and whatever the knobs are
C19_TickNeverAborts ==
    [][TickCalled =>
        /\ timeseries' # timeseries
        /\ latest_snapshot'.timestamp = current_time']_vars

\* C20, as claimed: whatever requests the boundary has accepted, the loop task is
\* alive, so that another tick can follow its sleep
C20_LoopAlive == loop = "running"

\* the discharge power the tick being taken adds for trade demand, on top of what
\* serves the load (additional_discharge, simulator.py:155-158)
TradeShare ==
    LET avail_d == AvailableDischarge(soc_kwh, battery_reserve_pct, DT)
        bp == LoadDispatch(pv_power_kw', load_kw', AvailableCharge(soc_kwh, DT), avail_d)
    IN  Max(0, AdditionalDischarge(TradeSellKw, avail_d, bp))

\* C21, as claimed: in each tick the fill added to a sell order is the discharge
\* attributed to trade demand, capped by the order's own implied rate, times dt
C21_FillIsTradeShare ==
    [][CompletedTick =>
        \A id \in Submitted :
            (InActive(id) /\ Dict(id).side = "sell") =>
                orders'[id + 1].filled_kwh - Dict(id).filled_kwh
                    = Min(TradeShare, PTrade(Dict(id))) * DT]_vars

\* net_power of the tick just taken
NetAfter == pv_power_kw' + battery_power_kw' - load_kw'

\* C22, as claimed: after a tick, export is min(net, 5 kW) and import 0 when net > 0;
\* otherwise export is 0 and import is min(-net, 5 kW) when connected, 0 when not;
\* and unserved_load_kw is the part of the deficit the grid does not cover
C22_GridExchange ==
    [][CompletedTick =>
        /\ NetAfter > 0 =>
              /\ grid_export_kw' = Min(NetAfter, GRID_CAPACITY_KW)
              /\ grid_import_kw' = 0
        /\ NetAfter <= 0 =>
              /\ grid_export_kw' = 0
              /\ grid_import_kw' =
                    IF grid_connected THEN Min(-NetAfter, GRID_CAPACITY_KW) ELSE 0
        /\ unserved_load_kw' =
              IF NetAfter > 0 THEN 0 ELSE -NetAfter - grid_import_kw']_vars

\* C23, as claimed: in every tick -P_MAX_CHARGE <= battery_power_kw <= P_MAX_DISCHARGE;
\* a discharge stays within the headroom above the reserve; the battery charges only
\* on a PV surplus, by at most min(surplus, charge headroom)
C23_DispatchLimits ==
    [][CompletedTick =>
        /\ -P_MAX_CHARGE <= battery_power_kw'
        /\ battery_power_kw' <= P_MAX_DISCHARGE
        /\ battery_power_kw' > 0 =>
              battery_power_kw' <= AvailableDischarge(soc_kwh, battery_reserve_pct, DT)
        /\ battery_power_kw' < 0 =>
              /\ pv_power_kw' > load_kw'
              /\ -battery_power_kw'
                    <= Min(pv_power_kw' - load_kw', AvailableCharge(soc_kwh, DT))]_vars

(***************************************************************************)
(* SpecSubmit: submissions, cancels and ticks, with an order beyond capacity *)
(***************************************************************************)
\* a sell order for 20 kWh, twice the battery, over the default 900 s
OversizedOrder ==
    [side |-> "sell", quantity_kwh |-> 2 * BATTERY_CAPACITY_KWH, duration_sec |-> 900,
     ttl_sec |-> 600]

SubmitInputs == OrderInputs \cup {OversizedOrder}

NextSubmit ==
    \/ \E spike \in Spikes : nticks < MaxTicks /\ Tick(spike)
    \/ \E spike \in Spikes : nticks < MaxTicks /\ TickTradeRaises(spike)
    \/ \E req \in SubmitInputs :
            SubmitOrder(req.side, req.quantity_kwh, req.duration_sec, req.ttl_sec)
    \/ \E id \in OrderIds : CancelOrder(id)
    \/ Respond

SpecSubmit == Init /\ [][NextSubmit]_vars

\* C24: SubmitOrder is never refused; it gives the order the next sequential id,
\* filled_kwh = 0 and status accepted, appends it to the active set and leaves the
\* other orders as they were; ids are unique over all orders and never reused
C24_Submit ==
    /\ [](\A k \in DOMAIN orders : orders[k].order_id = k - 1)
    /\ [](\A i, j \in DOMAIN active_orders :
            i # j => active_orders[i] # active_orders[j])
    /\ []((ret.op = "none" /\ order_counter < MaxOrders) =>
            \A req \in SubmitInputs :
                ENABLED SubmitOrder(req.side, req.quantity_kwh, req.duration_sec,
                                    req.ttl_sec))
    /\ [][(ret.op = "none" /\ ret'.op = "submit") =>
            /\ ret'.status = 200
            /\ ret'.order_id = Len(orders)
            /\ ret'.order_id \notin Submitted
            /\ Len(orders') = Len(orders) + 1
            /\ SubSeq(orders', 1, Len(orders)) = orders
            /\ orders'[Len(orders')].order_id = ret'.order_id
            /\ orders'[Len(orders')].filled_kwh = 0
            /\ orders'[Len(orders')].status = "accepted"
            /\ active_orders' = Append(active_orders, ret'.order_id)]_vars

\* the oversized order admitted after order 0 was cancelled: it is order 1, not 0
C24_Witness ==
    /\ ret.op = "submit" /\ ret.status = 200 /\ ret.order_id = 1
    /\ cancelled = {0}
    /\ Dict(1).quantity_kwh > BATTERY_CAPACITY_KWH
    /\ active_orders = <<1>>

\* the active sell orders, in the order of the list
ActiveSells == SelectSeq(active_orders, LAMBDA id : Dict(id).side = "sell")

C26_Counters ==
    /\ [][/\ energy_imported' >= energy_imported
          /\ energy_exported' >= energy_exported
          /\ pv_energy' >= pv_energy]_vars
    /\ [][TickCalled =>
            /\ energy_imported' = energy_imported + grid_import_kw' * DT
            /\ energy_exported' = energy_exported + grid_export_kw' * DT]_vars
    /\ [](/\ co2_savings = CO2_FACTOR * energy_exported
          /\ token_earnings = TOKEN_RATE * energy_exported)

\* the fill the step adds to the first k orders, summed
RECURSIVE FillAdded(_)
FillAdded(k) ==
    IF k = 0 THEN 0
    ELSE (orders'[k].filled_kwh - orders[k].filled_kwh) + FillAdded(k - 1)

\* C27, as claimed: in every tick the fill added over all sell orders together is at
\* most the energy the battery discharged in that tick, battery_power_kw * dt
C27_FillBacked ==
    [][CompletedTick => FillAdded(Len(orders)) <= Max(0, battery_power_kw') * DT]_vars

\* C28, as claimed: after every tick taken with grid_connected = false,
\* grid_import_kw = 0 and grid_export_kw = 0, and energy_imported, energy_exported,
\* co2_savings and token_earnings are as before the tick
C28_IslandedNoExchange ==
    [][(TickCalled /\ ~grid_connected) =>
        /\ grid_import_kw' = 0
        /\ grid_export_kw' = 0
        /\ UNCHANGED <<energy_imported, energy_exported, co2_savings,
                       token_earnings>>]_vars

(***************************************************************************)
(* SpecReserve: discharge with the reserve just below the state of charge   *)
(***************************************************************************)
\* reserve levels at and just under the initial 60 % of charge: 59.995 % leaves
\* 0.0005 kWh of headroom, less than one tick of discharge for the load
ReserveSwitchInputs ==
    { <<"battery_reserve_pct", "59.995">>, <<"battery_reserve_pct", "60">>,
      <<"manual_load_delta_kw", "4">> }

\* sell orders only, of a finite duration
ReserveOrderInputs == {req \in OrderInputs : req.side = "sell" /\ req.duration_sec > 0}

NextReserve ==
    \/ \E spike \in Spikes : nticks < MaxTicks /\ Tick(spike)
    \/ \E sv \in ReserveSwitchInputs : SetSwitch(sv[1], sv[2])
    \/ \E req \in ReserveOrderInputs :
            SubmitOrder(req.side, req.quantity_kwh, req.duration_sec, req.ttl_sec)
    \/ Respond

SpecReserve == Init /\ [][NextReserve]_vars

\* C29: a tick that starts with soc_kwh at or above the reserve level ends with
\* soc_kwh at or above it, whatever the load and the sell-order demand
C29_ReserveKept ==
    [][(TickCalled /\ soc_kwh >= ReserveKwh(battery_reserve_pct)) =>
            soc_kwh' >= ReserveKwh(battery_reserve_pct)]_vars

\* a tick whose discharge the headroom cut short: the battery gave less than the
\* load and the order asked and SoC came down exactly to the reserve level
C29_Witness ==
    /\ nticks > 0
    /\ active_orders # <<>>
    /\ battery_power_kw > 0 /\ battery_power_kw < load_kw
    /\ soc_kwh = ReserveKwh(battery_reserve_pct)
    /\ soc_kwh < Quot(BATTERY_CAPACITY_KWH, PERCENT) * BATTERY_SOC_START_PCT
====
